---- MODULE Spec2Model ----
(***************************************************************************)
(* bluescan: controller normalization (prepare_hci), exclusive mode        *)
(* dispatch, result lifecycle and the fault/signal layer of main(), as a   *)
(* state machine.  One action per statement group of                       *)
(* src/src/bluescan/__main__.py; pc is the position inside main().         *)
(***************************************************************************)
EXTENDS Integers, Sequences, FiniteSets, TLC

(***************************************************************************)
(* Bounds                                                                  *)
(***************************************************************************)
\* number of peers that may have pairing/cache data on disk before the run
MaxPeers == 1

(***************************************************************************)
(* Values                                                                  *)
(***************************************************************************)
NoneVal == "None"
Unbound == "<unbound>"
\* no address, no path
NoAddr == <<>>

\* args['-i'] default of the command line (line 149)
DefaultHciStr == "The default HCI device"
\* interface names: the one given with -i, and the one HCI.get_default_hcistr()
\* returns (the same controller: main() treats the two alike from line 158 on)
ExplicitIface == "hci0"
ResolvedIface == "hci0"

\* ControllerErrorCodes (bthci): the two the code names, and one other code
SUCCESS == "SUCCESS"
COMMAND_DISALLOWED == "COMMAND_DISALLOWED"
HARDWARE_FAILURE == "HARDWARE_FAILURE"
Statuses == {SUCCESS, COMMAND_DISALLOWED, HARDWARE_FAILURE}

\* Addresses are strings of characters; a character is a one-letter string.
UpperChar(c) ==
    CASE c = "a" -> "A"
      [] c = "b" -> "B"
      [] c = "c" -> "C"
      [] c = "d" -> "D"
      [] c = "e" -> "E"
      [] c = "f" -> "F"
      [] c = "h" -> "H"
      [] OTHER -> c

\* str.upper()
Upper(s) == [k \in DOMAIN s |-> UpperChar(s[k])]

\* bd_addr_bytes2str(cmd_complete.bd_addr): the controller's own address as
\* the lower-case hex text the conversion yields
ControllerAddrStr == <<"a", "0">>

\* peers (lower-case hex text, as the command line passes BD_ADDR on)
Peers == {<<"b", "1">>, <<"1", "1">>}

\* path components below /var/lib/bluetooth/
CacheName == <<"c", "a", "c", "h", "e">>

\* a path is the sequence of its components below /var/lib/bluetooth/
IsPrefix(p, q) == Len(p) <= Len(q) /\ SubSeq(q, 1, Len(p)) = p

\* rm -rf path : the path and everything below it is gone
RmRfMutant(files, path) == {q \in files : ~ IsPrefix(path, q) \/ q = path}
RmRf(files, path) == {q \in files : ~ IsPrefix(path, q)}

\* PosixPath('/var/lib/bluetooth/')/local_bd_addr/'cache'
CachePathMutant(addr) == <<ControllerAddrStr, CacheName>>
CachePath(addr) == <<addr, CacheName>>

\* cache_path.iterdir(): the entries directly below the directory
IterDir(files, dir) == {q \in files : Len(q) = Len(dir) + 1 /\ IsPrefix(dir, q)}

\* the two paths clean() removes (lines 102-103 and 109-110)
CleanDevPathMutant(laddr, raddr) == <<laddr, raddr>>
CleanDevPath(laddr, raddr) == <<laddr, Upper(raddr)>>
CleanCachePath(laddr, raddr) == <<laddr, CacheName, Upper(raddr)>>

\* bluetoothd's storage for the controller, with pairing data of the peers in S
StorageOf(S) ==
    {<<Upper(ControllerAddrStr)>>, CachePath(Upper(ControllerAddrStr))}
      \cup {<<Upper(ControllerAddrStr), Upper(p)>> : p \in S}
      \cup {<<Upper(ControllerAddrStr), CacheName, Upper(p)>> : p \in S}

PairedPeerSets == {S \in SUBSET Peers : Cardinality(S) <= MaxPeers}

\* file systems a run may start on: no storage at all, or storage for some peers
InitialFileSystems == {{}} \cup {StorageOf(S) : S \in PairedPeerSets}

(***************************************************************************)
(* Command lines: the nine scan modes, the plugin actions, and a mode      *)
(* string no branch of main() knows.                                       *)
(***************************************************************************)
ScanModes == {"BR_INQUIRY", "BR_LMP_FEATURE", "LE_DEVICE_SCAN", "LE_LL_FEATURE",
              "LE_SMP_FEATURE", "LE_PASSIVE_SNIFF", "SDP", "GATT", "CLEAN"}
PluginActions == {"LIST_PLUGINS", "INSTALL_PLUGIN", "UNINSTALL_PLUGIN", "RUN_PLUGIN"}
Invocations == ScanModes \cup PluginActions \cup {"UNKNOWN_MODE"}

NeedsAddr(inv) == inv \in {"BR_LMP_FEATURE", "LE_LL_FEATURE", "LE_SMP_FEATURE",
                           "SDP", "GATT", "CLEAN"}

\* the BD_ADDR values tried for an invocation: main() itself reads BD_ADDR in
\* clean() only, the engines get it passed through
AddrsFor(inv) ==
    IF inv = "CLEAN" THEN Peers
    ELSE IF NeedsAddr(inv) THEN {<<"b", "1">>}
    ELSE {NoAddr}

\* the dictionary parse_cmdline() returns for an invocation
ArgsOf(inv, iface, addr) ==
    [inv     |-> inv,
     m       |-> CASE inv \in {"BR_INQUIRY", "BR_LMP_FEATURE"} -> "br"
                   [] inv \in {"LE_DEVICE_SCAN", "LE_LL_FEATURE", "LE_SMP_FEATURE",
                               "LE_PASSIVE_SNIFF"} -> "le"
                   [] inv = "SDP" -> "sdp"
                   [] inv = "GATT" -> "gatt"
                   [] inv = "UNKNOWN_MODE" -> "stack"
                   [] OTHER -> NoneVal,
     i       |-> iface,
     adv     |-> inv = "LE_PASSIVE_SNIFF",
     lmp     |-> inv = "BR_LMP_FEATURE",
     ll      |-> inv = "LE_LL_FEATURE",
     smp     |-> inv = "LE_SMP_FEATURE",
     clean   |-> inv = "CLEAN",
     plugin  |-> IF inv \in PluginActions THEN inv ELSE NoneVal,
     BD_ADDR |-> addr]

\* `args` before parse_cmdline() has returned: the name is not bound
UnboundArgs == [ArgsOf(Unbound, Unbound, NoAddr) EXCEPT !.m = Unbound]
IsBound(a) == a.inv # Unbound

VARIABLES
    pc,             \* position in main()
    args,           \* main's local `args` (UnboundArgs before parse_cmdline returns)
    hostLog,        \* host commands (subprocess.check_output) and os.remove calls made
    service,        \* bluetooth.service is running
    fs,             \* paths that exist below /var/lib/bluetooth/
    hci,            \* prepare_hci's HCI object: "none", "open", "closed"
    closes,         \* number of hci.close() calls
    hciLog,         \* controller commands issued, with the status each returned
    cmd_complete,   \* prepare_hci's local cmd_complete.status
    warned,         \* logger.warning calls of prepare_hci
    local_bd_addr,  \* prepare_hci's local local_bd_addr
    engineLog,      \* scan-engine operations and clean() calls made by main
    scan_result,    \* main's local scan_result
    ui,             \* rendering and storing of the result, in order
    exc,            \* exception raised (pending in a handler, or escaped)
    exitCode,       \* exit status once pc = "done"
    out,            \* what the fault/signal layer printed or logged
    fsAtClean       \* fs when clean() was entered

hostVars == <<hostLog, service, fs>>
normVars == <<hci, closes, hciLog, cmd_complete, warned, local_bd_addr>>
scanVars == <<engineLog, scan_result, ui, fsAtClean>>
endVars  == <<exc, exitCode, out>>
vars == <<pc, args, hostLog, service, fs, hci, closes, hciLog, cmd_complete,
          warned, local_bd_addr, engineLog, scan_result, ui, exc, exitCode, out,
          fsAtClean>>

Init ==
    /\ pc = "parse_cmdline"
    /\ args = UnboundArgs
    /\ hostLog = <<>>
    /\ service \in BOOLEAN
    /\ fs \in InitialFileSystems
    /\ hci = "none"
    /\ closes = 0
    /\ hciLog = <<>>
    /\ cmd_complete = Unbound
    /\ warned = <<>>
    /\ local_bd_addr = NoAddr
    /\ engineLog = <<>>
    /\ scan_result = Unbound
    /\ ui = <<>>
    /\ exc = NoneVal
    /\ exitCode = NoneVal
    /\ out = <<>>
    /\ fsAtClean = {}

(***************************************************************************)
(* Exceptions: where control goes when `e` is raised inside the try block  *)
(* of main() (lines 201-215).  Anything no clause names leaves main().     *)
(***************************************************************************)
HandlerOf(e) ==
    CASE e \in {"RuntimeError", "ValueError"} -> "except_RuntimeError"
      [] e = "BTLEException" -> "except_BTLEException"
      [] e = "PluginInstallError" -> "except_PluginInstallError"
      [] e = "KeyboardInterrupt" -> "except_KeyboardInterrupt"
      [] OTHER -> "escaped"

\* positions inside the try block
TryBody == {"parse_cmdline", "plugin", "get_default_hcistr", "rfkill_unblock",
            "hciconfig_up", "restart_bluetooth", "open_hci", "inquiry_cancel",
            "exit_periodic_inquiry_mode", "write_scan_enable",
            "le_set_advertising_enable", "le_set_scan_enable", "set_event_filter",
            "read_bd_addr", "clear_cache", "hci_close", "dispatch", "clean_stop",
            "clean_rm_dev", "clean_rm_cache", "clean_start", "result", "store"}

\* positions inside prepare_hci
InPrepare == {"rfkill_unblock", "hciconfig_up", "restart_bluetooth", "open_hci",
              "inquiry_cancel", "exit_periodic_inquiry_mode", "write_scan_enable",
              "le_set_advertising_enable", "le_set_scan_enable", "set_event_filter",
              "read_bd_addr", "clear_cache", "hci_close"}

\* a host command, as issued
HostCmd(name, iface, path, ok) ==
    [cmd |-> name, iface |-> iface, path |-> path, ok |-> ok]

(***************************************************************************)
(* Raising and continuing                                                  *)
(***************************************************************************)
\* `e` is raised inside the try block: the matching except clause runs, or
\* the exception leaves main() and the interpreter prints the traceback and
\* ends the process with status 1.
Raise(e) ==
    /\ exc' = e
    /\ IF HandlerOf(e) = "escaped"
         THEN /\ pc' = "done"
              /\ exitCode' = 1
              /\ out' = Append(out, "traceback")
         ELSE /\ pc' = HandlerOf(e)
              /\ UNCHANGED <<exitCode, out>>

Continue(next) == pc' = next /\ UNCHANGED endVars

\* main() returns: the process ends with status 0
Return == pc' = "done" /\ exitCode' = 0 /\ UNCHANGED <<exc, out>>

CheckOutputMutant(name, iface, path, ok, next) ==
    /\ hostLog' = Append(hostLog, HostCmd(name, iface, path, ok))
    /\ Continue(next)

\* subprocess.check_output(cmd): logged; on success `next` is reached, a
\* non-zero exit or a timeout raises (CalledProcessError / TimeoutExpired)
CheckOutput(name, iface, path, ok, next) ==
    /\ hostLog' = Append(hostLog, HostCmd(name, iface, path, ok))
    /\ IF ok THEN Continue(next) ELSE Raise("CalledProcessError")

(***************************************************************************)
(* main(), lines 122-158: parsing, plugin actions, choice of the path      *)
(***************************************************************************)
\* lines 126-158: where main() goes with the parsed arguments
EntryPointMutant(a) ==
    IF a.plugin # NoneVal THEN "plugin"
    ELSE IF a.i = DefaultHciStr THEN "get_default_hcistr"
    ELSE "rfkill_unblock"
EntryPoint(a) ==
    IF a.plugin # NoneVal THEN "plugin"
    ELSE IF ~ a.adv
           THEN IF a.i = DefaultHciStr THEN "get_default_hcistr"
                ELSE "rfkill_unblock"
    ELSE "dispatch"

\* line 122
ParseCmdline ==
    /\ pc = "parse_cmdline"
    /\ \/ \E inv \in Invocations, iface \in {DefaultHciStr, ExplicitIface} :
            \E addr \in AddrsFor(inv) :
               /\ args' = ArgsOf(inv, iface, addr)
               /\ Continue(EntryPoint(args'))
       \/ /\ Raise("ValueError")
          /\ UNCHANGED args
    /\ UNCHANGED <<hostVars, normVars, scanVars>>

\* lines 126-144: list, install, uninstall or run a plugin, then return
PluginAction ==
    /\ pc = "plugin"
    /\ \/ Return
       \/ /\ args.plugin = "INSTALL_PLUGIN"
          /\ Raise("PluginInstallError")
    /\ UNCHANGED <<args, hostVars, normVars, scanVars>>

\* lines 149-156
GetDefaultHcistrMutant ==
    /\ pc = "get_default_hcistr"
    /\ \/ /\ args' = [args EXCEPT !.i = ResolvedIface]
          /\ Continue("rfkill_unblock")
       \/ /\ UNCHANGED args
          /\ pc' = "rfkill_unblock"
          /\ out' = Append(out, "error")
          /\ UNCHANGED <<exc, exitCode>>
    /\ UNCHANGED <<hostVars, normVars, scanVars>>
GetDefaultHcistr ==
    /\ pc = "get_default_hcistr"
    /\ \/ /\ args' = [args EXCEPT !.i = ResolvedIface]
          /\ Continue("rfkill_unblock")
       \/ \* HciError: logger.error('No available HCI device'); exit(-1)
          /\ UNCHANGED args
          /\ pc' = "done"
          /\ exitCode' = -1
          /\ out' = Append(out, "error")
          /\ exc' = "SystemExit"
    /\ UNCHANGED <<hostVars, normVars, scanVars>>

(***************************************************************************)
(* prepare_hci(iface), lines 29-93                                         *)
(***************************************************************************)
\* lines 36-37
RfkillUnblock ==
    /\ pc = "rfkill_unblock"
    /\ \E ok \in BOOLEAN : CheckOutput("rfkill unblock", args.i, NoAddr, ok, "hciconfig_up")
    /\ UNCHANGED <<args, service, fs, normVars, scanVars>>

\* lines 38-39
HciconfigUpMutant ==
    /\ pc = "hciconfig_up"
    /\ \E ok \in BOOLEAN : CheckOutput("hciconfig up", args.i, NoAddr, ok, "open_hci")
    /\ UNCHANGED <<args, service, fs, normVars, scanVars>>
HciconfigUp ==
    /\ pc = "hciconfig_up"
    /\ \E ok \in BOOLEAN : CheckOutput("hciconfig up", args.i, NoAddr, ok,
                                       "restart_bluetooth")
    /\ UNCHANGED <<args, service, fs, normVars, scanVars>>

\* lines 40-41
RestartBluetooth ==
    /\ pc = "restart_bluetooth"
    /\ \E ok \in BOOLEAN :
          /\ CheckOutput("systemctl restart bluetooth.service", NoneVal, NoAddr, ok,
                         "open_hci")
          /\ service' = IF ok THEN TRUE ELSE service
    /\ UNCHANGED <<args, fs, normVars, scanVars>>

\* line 43
OpenHci ==
    /\ pc = "open_hci"
    /\ hci' = "open"
    /\ Continue("inquiry_cancel")
    /\ UNCHANGED <<args, hostVars, closes, hciLog, cmd_complete, warned,
                   local_bd_addr, scanVars>>

\* the statuses the `not in (SUCCESS, COMMAND_DISALLOWED)` tests let pass
Tolerated == {SUCCESS, COMMAND_DISALLOWED}

HciEvent(name, st) == [cmd |-> name, status |-> st]

\* a controller command whose event is assigned to cmd_complete and tested
\* with `status not in (SUCCESS, COMMAND_DISALLOWED)`: a warning, no raise
CheckedCommandMutant(name, next) ==
    /\ pc = name
    /\ \E st \in Statuses :
          /\ hciLog' = Append(hciLog, HciEvent(name, st))
          /\ cmd_complete' = st
          /\ IF st \notin Tolerated THEN Raise("RuntimeError") ELSE Continue(next)
    /\ UNCHANGED <<args, hostVars, hci, closes, warned, local_bd_addr, scanVars>>
CheckedCommand(name, next) ==
    /\ pc = name
    /\ \E st \in Statuses :
          /\ hciLog' = Append(hciLog, HciEvent(name, st))
          /\ cmd_complete' = st
          /\ warned' = IF st \notin Tolerated
                         THEN Append(warned, HciEvent(name, st))
                         ELSE warned
    /\ Continue(next)
    /\ UNCHANGED <<args, hostVars, hci, closes, local_bd_addr, scanVars>>

\* lines 48-52
InquiryCancel == CheckedCommand("inquiry_cancel", "exit_periodic_inquiry_mode")

\* lines 54-58
ExitPeriodicInquiryMode ==
    CheckedCommand("exit_periodic_inquiry_mode", "write_scan_enable")

\* lines 60-63: the event of write_scan_enable() is not assigned; the test
\* reads the cmd_complete of the command before
WriteScanEnable ==
    /\ pc = "write_scan_enable"
    /\ \E st \in Statuses :
          hciLog' = Append(hciLog, HciEvent("write_scan_enable", st))
    /\ warned' = IF cmd_complete \notin Tolerated
                   THEN Append(warned, HciEvent("write_scan_enable", cmd_complete))
                   ELSE warned
    /\ Continue("le_set_advertising_enable")
    /\ UNCHANGED <<args, hostVars, hci, closes, cmd_complete, local_bd_addr, scanVars>>

\* lines 65-68
LeSetAdvertisingEnable ==
    CheckedCommand("le_set_advertising_enable", "le_set_scan_enable")

\* lines 70-73
LeSetScanEnable == CheckedCommand("le_set_scan_enable", "set_event_filter")

\* lines 75-78: tested with `status != SUCCESS`
SetEventFilter ==
    /\ pc = "set_event_filter"
    /\ \E st \in Statuses :
          /\ hciLog' = Append(hciLog, HciEvent("set_event_filter", st))
          /\ cmd_complete' = st
          /\ warned' = IF st # SUCCESS
                         THEN Append(warned, HciEvent("set_event_filter", st))
                         ELSE warned
    /\ Continue("read_bd_addr")
    /\ UNCHANGED <<args, hostVars, hci, closes, local_bd_addr, scanVars>>

\* lines 80-85: where prepare_hci goes with the status of read_bd_addr()
AfterReadBdAddrMutant(st) == IF st \notin Tolerated THEN "raise" ELSE "clear_cache"
AfterReadBdAddr(st) == IF st # SUCCESS THEN "raise" ELSE "clear_cache"

\* lines 80-85
ReadBdAddr ==
    /\ pc = "read_bd_addr"
    /\ \E st \in Statuses :
          /\ hciLog' = Append(hciLog, HciEvent("read_bd_addr", st))
          /\ cmd_complete' = st
          /\ IF AfterReadBdAddr(st) = "raise"
               THEN /\ Raise("RuntimeError")
                    /\ UNCHANGED local_bd_addr
               ELSE /\ local_bd_addr' = Upper(ControllerAddrStr)
                    /\ Continue(AfterReadBdAddr(st))
    /\ UNCHANGED <<args, hostVars, hci, closes, warned, scanVars>>

\* lines 89-91: the files the loop still has to remove
ToRemoveMutant(files, addr) == {}
ToRemove(files, addr) ==
    IF CachePath(addr) \in files THEN IterDir(files, CachePath(addr)) ELSE {}

\* lines 88-91: one os.remove(file) of the loop, or the end of the loop
ClearCache ==
    /\ pc = "clear_cache"
    /\ IF ToRemove(fs, local_bd_addr) = {}
         THEN /\ Continue("hci_close")
              /\ UNCHANGED hostVars
         ELSE \E f \in ToRemove(fs, local_bd_addr), ok \in BOOLEAN :
                 /\ hostLog' = Append(hostLog, HostCmd("os.remove", NoneVal, f, ok))
                 /\ fs' = IF ok THEN fs \ {f} ELSE fs
                 /\ IF ok THEN Continue("clear_cache") ELSE Raise("OSError")
                 /\ UNCHANGED service
    /\ UNCHANGED <<args, normVars, scanVars>>

HciCloseMutant ==
    /\ pc = "hci_close"
    /\ Continue("dispatch")
    /\ UNCHANGED <<args, hostVars, hci, closes, hciLog, cmd_complete, warned,
                   local_bd_addr, scanVars>>

\* line 93
HciClose ==
    /\ pc = "hci_close"
    /\ hci' = "closed"
    /\ closes' = closes + 1
    /\ Continue("dispatch")
    /\ UNCHANGED <<args, hostVars, hciLog, cmd_complete, warned, local_bd_addr,
                   scanVars>>

(***************************************************************************)
(* main(), lines 160-200: dispatch, scan engines, clean(), the result      *)
(***************************************************************************)
\* lines 161-192: the branch of the if/elif chain that runs
BranchMutant(a) ==
    IF a.m = "br" THEN "br"
    ELSE IF a.m = "le" THEN "le"
    ELSE IF a.m = "sdp" THEN "sdp"
    ELSE IF a.m = "gatt" THEN "sdp"
    ELSE IF a.clean THEN "clean"
    ELSE "invalid"
BranchNoCleanMutant(a) ==
    IF a.m = "br" THEN "br"
    ELSE IF a.m = "le" THEN "le"
    ELSE IF a.m = "sdp" THEN "sdp"
    ELSE IF a.m = "gatt" THEN "gatt"
    ELSE "invalid"
Branch(a) ==
    IF a.m = "br" THEN "br"
    ELSE IF a.m = "le" THEN "le"
    ELSE IF a.m = "sdp" THEN "sdp"
    ELSE IF a.m = "gatt" THEN "gatt"
    ELSE IF a.clean THEN "clean"
    ELSE "invalid"

\* lines 163-167
BrOp(a) == IF a.lmp THEN "scan_lmp_feature" ELSE "inquiry"

\* lines 169-180
LeOp(a) ==
    IF a.adv THEN "sniff_adv"
    ELSE IF a.ll THEN "scan_ll_feature"
    ELSE IF a.smp THEN "detect_pairing_feature"
    ELSE "scan_devs"

\* the engine is built on args['-i'], or (sniff_adv) on the micro:bit paths
MicrobitDevpaths == "microbit_devpaths"
LeTarget(a) == IF a.adv THEN MicrobitDevpaths ELSE a.i

EngineCall(engine, op, on) == [engine |-> engine, op |-> op, on |-> on, laddr |-> NoAddr]

\* what an engine operation may raise into main()
EngineErrors == {"RuntimeError", "BTLEException"}

\* an engine operation whose return value main() does not keep
Discarding(branch, call) ==
    /\ pc = "dispatch"
    /\ Branch(args) = branch
    /\ engineLog' = Append(engineLog, call)
    /\ scan_result' = NoneVal
    /\ \/ Continue("result")
       \/ \E e \in EngineErrors : Raise(e)
    /\ UNCHANGED <<args, hostVars, normVars, ui, fsAtClean>>

\* an engine operation whose return value main() binds to scan_result
Keeping(branch, call, kind) ==
    /\ pc = "dispatch"
    /\ Branch(args) = branch
    /\ engineLog' = Append(engineLog, call)
    /\ \/ \E r \in {NoneVal, kind} :
             /\ scan_result' = r
             /\ Continue("result")
       \/ \E e \in EngineErrors :
             /\ scan_result' = NoneVal
             /\ Raise(e)
    /\ UNCHANGED <<args, hostVars, normVars, ui, fsAtClean>>

\* lines 161-167
BRScan == Discarding("br", EngineCall("BRScanner", BrOp(args), args.i))

\* lines 168-177: sniff_adv, scan_ll_feature, detect_pairing_feature
LEProbe ==
    /\ LeOp(args) # "scan_devs"
    /\ Discarding("le", EngineCall("LeScanner", LeOp(args), LeTarget(args)))

\* lines 178-180
LEScanDevs ==
    /\ LeOp(args) = "scan_devs"
    /\ Keeping("le", EngineCall("LeScanner", "scan_devs", args.i), "LE")

\* lines 181-182
SDPScan == Discarding("sdp", EngineCall("SDPScanner", "scan", args.i))

\* lines 183-185
GATTScan == Keeping("gatt", EngineCall("GattScanner", "scan", args.i), "GATT")

\* lines 191-192: logger.error('Invalid scan mode')
InvalidScanMode ==
    /\ pc = "dispatch"
    /\ Branch(args) = "invalid"
    /\ scan_result' = NoneVal
    /\ out' = Append(out, "error")
    /\ pc' = "result"
    /\ UNCHANGED <<args, hostVars, normVars, engineLog, ui, fsAtClean, exc, exitCode>>

\* BlueScanner(iface).hci_bd_addr: the controller's address, in either case
LocalAddrForms == {ControllerAddrStr, Upper(ControllerAddrStr)}

\* lines 188-190: clean(BlueScanner(args['-i']).hci_bd_addr, args['BD_ADDR'])
CleanEnter ==
    /\ pc = "dispatch"
    /\ Branch(args) = "clean"
    /\ \E la \in LocalAddrForms :
          engineLog' = Append(engineLog,
                              [EngineCall("clean", "clean", args.i) EXCEPT !.laddr = la])
    /\ scan_result' = NoneVal
    /\ fsAtClean' = fs
    /\ Continue("clean_stop")
    /\ UNCHANGED <<args, hostVars, normVars, ui>>

\* the laddr clean() was called with
CleanLaddr == engineLog[Len(engineLog)].laddr

\* lines 97-99
CleanStop ==
    /\ pc = "clean_stop"
    /\ \E ok \in BOOLEAN :
          /\ CheckOutput("systemctl stop bluetooth.service", NoneVal, NoAddr, ok,
                         "clean_rm_dev")
          /\ service' = IF ok THEN FALSE ELSE service
    /\ UNCHANGED <<args, fs, normVars, scanVars>>

\* lines 101-106
CleanRmDev ==
    /\ pc = "clean_rm_dev"
    /\ \E ok \in BOOLEAN :
          /\ CheckOutput("rm -rf", NoneVal, CleanDevPath(CleanLaddr, args.BD_ADDR), ok,
                         "clean_rm_cache")
          /\ fs' = IF ok THEN RmRf(fs, CleanDevPath(CleanLaddr, args.BD_ADDR)) ELSE fs
    /\ UNCHANGED <<args, service, normVars, scanVars>>

\* lines 108-113
CleanRmCache ==
    /\ pc = "clean_rm_cache"
    /\ \E ok \in BOOLEAN :
          /\ CheckOutput("rm -rf", NoneVal, CleanCachePath(CleanLaddr, args.BD_ADDR), ok,
                         "clean_start")
          /\ fs' = IF ok THEN RmRf(fs, CleanCachePath(CleanLaddr, args.BD_ADDR)) ELSE fs
    /\ UNCHANGED <<args, service, normVars, scanVars>>

\* lines 115-117
CleanStart ==
    /\ pc = "clean_start"
    /\ \E ok \in BOOLEAN :
          /\ CheckOutput("systemctl start bluetooth.service", NoneVal, NoAddr, ok,
                         "result")
          /\ service' = IF ok THEN TRUE ELSE service
    /\ UNCHANGED <<args, fs, normVars, scanVars>>

\* line 195: is there a result to show
HasResultMutant(r) == TRUE
HasResult(r) == r # NoneVal

\* lines 195-199: header and scan_result.print()
PrintResult ==
    /\ pc = "result"
    /\ HasResult(scan_result)
    /\ ui' = Append(ui, "print")
    /\ Continue("store")
    /\ UNCHANGED <<args, hostVars, normVars, engineLog, scan_result, fsAtClean>>

\* line 200: scan_result.store(), then main() returns
StoreResult ==
    /\ pc = "store"
    /\ ui' = Append(ui, "store")
    /\ Return
    /\ UNCHANGED <<args, hostVars, normVars, engineLog, scan_result, fsAtClean>>

\* line 195 false: main() returns
NoResult ==
    /\ pc = "result"
    /\ ~ HasResult(scan_result)
    /\ Return
    /\ UNCHANGED <<args, hostVars, normVars, scanVars>>

(***************************************************************************)
(* main(), lines 201-215: the except clauses                               *)
(***************************************************************************)
\* Ctrl-C while the try block runs
Interrupt ==
    /\ pc \in TryBody
    /\ Raise("KeyboardInterrupt")
    /\ UNCHANGED <<args, hostVars, normVars, scanVars>>

\* lines 202-205
HandleRuntimeError ==
    /\ pc = "except_RuntimeError"
    /\ out' = out \o <<"error", "traceback">>
    /\ pc' = "done"
    /\ exitCode' = 1
    /\ UNCHANGED <<args, hostVars, normVars, scanVars, exc>>

\* lines 206-207
HandleBTLEException ==
    /\ pc = "except_BTLEException"
    /\ out' = Append(out, "error")
    /\ pc' = "done"
    /\ exitCode' = 0
    /\ UNCHANGED <<args, hostVars, normVars, scanVars, exc>>

\* lines 208-209
HandlePluginInstallError ==
    /\ pc = "except_PluginInstallError"
    /\ out' = Append(out, "error")
    /\ pc' = "done"
    /\ exitCode' = 0
    /\ UNCHANGED <<args, hostVars, normVars, scanVars, exc>>

\* line 211: the test that guards the reset.  Reading `args` before
\* parse_cmdline() has bound it raises UnboundLocalError.
ResetGuardMutant(a) ==
    IF ~ IsBound(a) THEN "UnboundLocalError"
    ELSE IF a.i # NoneVal /\ a.i # DefaultHciStr /\ ~ a.adv THEN "reset"
    ELSE "skip"
ResetGuard(a) ==
    IF ~ IsBound(a) THEN "UnboundLocalError"
    ELSE IF a.i # NoneVal THEN "reset"
    ELSE "skip"

\* lines 210-215
HandleKeyboardInterrupt ==
    /\ pc = "except_KeyboardInterrupt"
    /\ CASE ResetGuard(args) = "UnboundLocalError" ->
              /\ pc' = "done"
              /\ exc' = "UnboundLocalError"
              /\ exitCode' = 1
              /\ out' = Append(out, "traceback")
              /\ UNCHANGED hostLog
         [] ResetGuard(args) = "reset" ->
              \E ok \in BOOLEAN :
                 /\ hostLog' = Append(hostLog, HostCmd("hciconfig reset", args.i, NoAddr, ok))
                 /\ pc' = "done"
                 /\ IF ok
                      THEN /\ out' = out \o <<"", "Canceled">>
                           /\ exitCode' = 0
                           /\ UNCHANGED exc
                      ELSE /\ out' = Append(out, "traceback")
                           /\ exitCode' = 1
                           /\ exc' = "CalledProcessError"
         [] OTHER ->
              /\ pc' = "done"
              /\ out' = out \o <<"", "Canceled">>
              /\ exitCode' = 0
              /\ UNCHANGED <<exc, hostLog>>
    /\ UNCHANGED <<args, service, fs, normVars, scanVars>>

Next ==
    \/ ParseCmdline
    \/ PluginAction
    \/ GetDefaultHcistr
    \/ RfkillUnblock
    \/ HciconfigUp
    \/ RestartBluetooth
    \/ OpenHci
    \/ InquiryCancel
    \/ ExitPeriodicInquiryMode
    \/ WriteScanEnable
    \/ LeSetAdvertisingEnable
    \/ LeSetScanEnable
    \/ SetEventFilter
    \/ ReadBdAddr
    \/ ClearCache
    \/ HciClose
    \/ BRScan
    \/ LEProbe
    \/ LEScanDevs
    \/ SDPScan
    \/ GATTScan
    \/ InvalidScanMode
    \/ CleanEnter
    \/ CleanStop
    \/ CleanRmDev
    \/ CleanRmCache
    \/ CleanStart
    \/ PrintResult
    \/ StoreResult
    \/ NoResult
    \/ Interrupt
    \/ HandleRuntimeError
    \/ HandleBTLEException
    \/ HandlePluginInstallError
    \/ HandleKeyboardInterrupt

Spec == Init /\ [][Next]_vars

(***************************************************************************)
(* Vocabulary of the properties                                            *)
(***************************************************************************)
\* the controller commands of prepare_hci, in program order (lines 49-80)
CommandOrder == <<"inquiry_cancel", "exit_periodic_inquiry_mode", "write_scan_enable",
                  "le_set_advertising_enable", "le_set_scan_enable",
                  "set_event_filter", "read_bd_addr">>
Intermediate == 1..(Len(CommandOrder) - 1)
AddrRead == Len(CommandOrder)

HostCount(name) == Cardinality({k \in DOMAIN hostLog : hostLog[k].cmd = name})
HostFailed == \E k \in DOMAIN hostLog : ~ hostLog[k].ok
CacheDeletions == HostCount("os.remove")
Resets == HostCount("hciconfig reset")

\* a KeyboardInterrupt reached the except clause (the handler may have run)
Interrupted ==
    \/ exc \in {"KeyboardInterrupt", "UnboundLocalError"}
    \/ Resets > 0

\* prepare_hci was entered / returned normally
PrepareEntered == HostCount("rfkill unblock") > 0
PrepareReturned == hci = "closed"
\* prepare_hci was left: by return, by an exception or by the interrupt
PrepareLeft == PrepareEntered /\ pc \notin InPrepare

\* main() ran to its end without any exception
CompletedNormally == pc = "done" /\ exc = NoneVal

\* entries of the cache directory keyed by `addr`
CacheEntries(addr) ==
    {q \in fs : Len(q) = Len(<<addr, CacheName>>) + 1 /\ q[1] = addr /\ q[2] = CacheName}

C2_HandleClosedExactlyOnce ==
    (PrepareLeft /\ hci # "none") => (hci = "closed" /\ closes = 1)

(***************************************************************************)
(* C3                                                                      *)
(***************************************************************************)
\* C3: when read_bd_addr returns any status but SUCCESS (COMMAND_DISALLOWED
\* included), a RuntimeError is raised, no cache file is deleted, no scan
\* engine and no cleanup runs, and the process ends with exit status 1.
C3_AddrReadFailureIsFatal ==
    (Len(hciLog) = AddrRead /\ hciLog[AddrRead].status # SUCCESS)
       => /\ exc = "RuntimeError"
          /\ pc \in {"except_RuntimeError", "done"}
          /\ local_bd_addr = NoAddr
          /\ CacheDeletions = 0
          /\ engineLog = <<>>
          /\ pc = "done" => (exitCode = 1 /\ out = <<"error", "traceback">>)

\* reached: the address read returned COMMAND_DISALLOWED after six tolerated
\* statuses, and the process has exited
C3_Witness ==
    /\ Len(hciLog) = AddrRead
    /\ \A k \in Intermediate : hciLog[k].status \in Tolerated
    /\ hciLog[AddrRead].status = COMMAND_DISALLOWED
    /\ CacheEntries(Upper(ControllerAddrStr)) # {}
    /\ pc = "done"

(***************************************************************************)
(* C4                                                                      *)
(***************************************************************************)
\* the six intermediate statuses are SUCCESS or COMMAND_DISALLOWED, the
\* address read is SUCCESS
GoodOutcomes ==
    /\ Len(hciLog) = AddrRead
    /\ \A k \in Intermediate : hciLog[k].status \in Tolerated
    /\ hciLog[AddrRead].status = SUCCESS

\* C4: with six tolerated intermediate statuses, a SUCCESS address read, no
\* failing host command and no interrupt, normalization is not aborted: it is
\* in its cache loop, about to close, or has returned; and once it has
\* returned the cache directory of the resolved local address has no entries.
C4_CacheEmptyAfterNormalization ==
    /\ (GoodOutcomes /\ ~ HostFailed /\ ~ Interrupted)
          => /\ local_bd_addr = Upper(ControllerAddrStr)
             /\ pc \in {"clear_cache", "hci_close"} \/ PrepareReturned
    /\ (GoodOutcomes /\ PrepareReturned) => CacheEntries(local_bd_addr) = {}

\* reached: a run with a COMMAND_DISALLOWED status whose cache directory had
\* an entry, which normalization deleted before it returned
C4_Witness ==
    /\ GoodOutcomes
    /\ \E k \in Intermediate : hciLog[k].status = COMMAND_DISALLOWED
    /\ PrepareReturned
    /\ CacheDeletions > 0
    /\ ~ HostFailed

(***************************************************************************)
(* C5                                                                      *)
(***************************************************************************)
\* the one operation each ScanMode stands for
ExpectedCall(mode) ==
    CASE mode = "BR_INQUIRY" -> <<"BRScanner", "inquiry">>
      [] mode = "BR_LMP_FEATURE" -> <<"BRScanner", "scan_lmp_feature">>
      [] mode = "LE_DEVICE_SCAN" -> <<"LeScanner", "scan_devs">>
      [] mode = "LE_LL_FEATURE" -> <<"LeScanner", "scan_ll_feature">>
      [] mode = "LE_SMP_FEATURE" -> <<"LeScanner", "detect_pairing_feature">>
      [] mode = "LE_PASSIVE_SNIFF" -> <<"LeScanner", "sniff_adv">>
      [] mode = "SDP" -> <<"SDPScanner", "scan">>
      [] mode = "GATT" -> <<"GattScanner", "scan">>
      [] mode = "CLEAN" -> <<"clean", "clean">>

CallAt(k) == <<engineLog[k].engine, engineLog[k].op>>

\* the dispatch of main() is behind: an operation returned to main()
Dispatched == pc \in {"result", "store"} \/ CompletedNormally

\* C5: for each of the nine ScanModes main() invokes at most one operation,
\* never one of another mode, and once dispatch is behind it has invoked the
\* operation of its mode exactly once.
C5_ExclusiveDispatch ==
    args.inv \in ScanModes
       => /\ Len(engineLog) <= 1
          /\ \A k \in DOMAIN engineLog : CallAt(k) = ExpectedCall(args.inv)
          /\ Dispatched => Len(engineLog) = 1

\* reached: a GATT invocation that ran to its end with its one operation
C5_Witness ==
    /\ args.inv = "GATT"
    /\ CompletedNormally
    /\ Len(engineLog) = 1
    /\ CallAt(1) = <<"GattScanner", "scan">>

(***************************************************************************)
(* C6                                                                      *)
(***************************************************************************)
\* the three execution paths
PathNormalizeScan ==
    /\ PrepareReturned
    /\ \E k \in DOMAIN engineLog :
          engineLog[k].engine # "clean" /\ engineLog[k].op # "sniff_adv"
PathCleanup == \E k \in DOMAIN engineLog : engineLog[k].engine = "clean"
PathSniff == \E k \in DOMAIN engineLog : engineLog[k].op = "sniff_adv"

PathsExecuted ==
    {p \in {"normalize+scan", "cleanup", "sniff"} :
        \/ p = "normalize+scan" /\ PathNormalizeScan
        \/ p = "cleanup" /\ PathCleanup
        \/ p = "sniff" /\ PathSniff}

\* the path a ScanMode selects
PathOf(mode) ==
    CASE mode = "CLEAN" -> "cleanup"
      [] mode = "LE_PASSIVE_SNIFF" -> "sniff"
      [] OTHER -> "normalize+scan"

\* C6: in an invocation of a ScanMode never more than one of the paths
\* {normalization followed by a scan, cleanup, sniff} has executed, none
\* executes twice (one normalization, one operation at most), a scan or a
\* cleanup starts only after normalization has returned, a sniff only
\* without normalization, and once dispatch is behind exactly the path of the
\* mode has executed: cleanup alone for CLEAN.
C6_ExactlyOnePath ==
    args.inv \in ScanModes
       => /\ PathsExecuted \subseteq {PathOf(args.inv)}
          /\ Len(engineLog) <= 1
          /\ HostCount("rfkill unblock") <= 1 /\ closes <= 1
          /\ (engineLog # <<>> /\ ~ PathSniff) => PrepareReturned
          /\ PathSniff => ~ PrepareEntered
          /\ Dispatched => PathsExecuted = {PathOf(args.inv)}

\* reached: a CLEAN invocation that ran to its end: cleanup executed, after
\* normalization, and no scan
C6_Witness ==
    /\ args.inv = "CLEAN"
    /\ CompletedNormally
    /\ PrepareReturned
    /\ PathsExecuted = {"cleanup"}

(***************************************************************************)
(* C7                                                                      *)
(***************************************************************************)
NormalizerCommands == {"rfkill unblock", "hciconfig up",
                       "systemctl restart bluetooth.service", "os.remove"}

\* C7: with --adv nothing of the Normalizer happens, before or after the
\* sniff: main() is never at the resolution of the default interface nor
\* inside prepare_hci, no rfkill/hciconfig up/restart is issued, no
\* controller command, no handle, no cache deletion; main() goes from parsing
\* straight to the dispatch and the only operation is LeScanner.sniff_adv on
\* the micro:bit device paths.
C7_SniffSkipsNormalizer ==
    args.adv
       => /\ \A k \in DOMAIN hostLog : hostLog[k].cmd \notin NormalizerCommands
          /\ hciLog = <<>> /\ hci = "none" /\ local_bd_addr = NoAddr
          /\ pc \notin InPrepare \cup {"get_default_hcistr"}
          /\ \A k \in DOMAIN engineLog :
                engineLog[k] = EngineCall("LeScanner", "sniff_adv", MicrobitDevpaths)

\* reached: a sniff that returned, on a disk that has cache entries
C7_Witness ==
    /\ args.adv
    /\ CompletedNormally
    /\ Len(engineLog) = 1
    /\ CacheEntries(Upper(ControllerAddrStr)) # {}

(***************************************************************************)
(* C8                                                                      *)
(***************************************************************************)
CleanCommands == {"systemctl stop bluetooth.service", "rm -rf",
                  "systemctl start bluetooth.service"}
IsCleanCommand(c) == c.cmd \in CleanCommands

\* the host commands clean() has issued
CleanLog == SelectSeq(hostLog, IsCleanCommand)

\* stop, remove devPath, remove cachePath, start
CleanScript(devPath, cachePath) ==
    <<HostCmd("systemctl stop bluetooth.service", NoneVal, NoAddr, TRUE),
      HostCmd("rm -rf", NoneVal, devPath, TRUE),
      HostCmd("rm -rf", NoneVal, cachePath, TRUE),
      HostCmd("systemctl start bluetooth.service", NoneVal, NoAddr, TRUE)>>

\* clean() has returned
CleanReturned ==
    /\ PathCleanup
    /\ Len(CleanLog) = Len(CleanScript(NoAddr, NoAddr))
    /\ CleanLog[Len(CleanLog)].ok

Exists(path) == \E q \in fs : IsPrefix(path, q)

\* what clean() leaves behind for the two paths
CleanPost(devPath, cachePath) ==
    /\ ~ Exists(devPath)
    /\ ~ Exists(cachePath)
    /\ service

InterfaceResolved == IsBound(args) /\ ~ args.adv /\ args.i # DefaultHciStr

\* C9: when the interrupt has been handled, exactly one reset was issued if
\* an interface had been resolved, and none otherwise.
C9_ResetIffInterfaceResolved ==
    (pc = "done" /\ Interrupted)
       => Resets = (IF InterfaceResolved THEN 1 ELSE 0)

(***************************************************************************)
(* C10                                                                     *)
(***************************************************************************)
NoResultModes == {"BR_LMP_FEATURE", "LE_LL_FEATURE", "LE_SMP_FEATURE", "SDP",
                  "CLEAN", "LE_PASSIVE_SNIFF"}

\* the engine operation handed main() a ScanResult
Produced == scan_result \in {"LE", "GATT"}

NoControllerReported ==
    /\ IsBound(args) /\ args.plugin = NoneVal /\ ~ args.adv
    /\ args.i = DefaultHciStr
    /\ out # <<>> /\ out[1] = "error"

\* C11: when no interface was requested and none is available, the error is
\* logged and the process has ended with exit status -1; no host command (so
\* no normalization and no reset), no handle, no controller command, no
\* engine operation or cleanup and no rendering has happened.  exit(-1) is
\* reached in no other way.
C11_NoControllerExit ==
    /\ NoControllerReported
          => /\ pc = "done"
             /\ exc = "SystemExit"
             /\ exitCode = -1
             /\ out = <<"error">>
             /\ hostLog = <<>>
             /\ hci = "none" /\ hciLog = <<>>
             /\ engineLog = <<>>
             /\ ui = <<>>
    /\ exc = "SystemExit" => NoControllerReported

\* reached: a CLEAN invocation without -i on a host without controller
C11_Witness ==
    /\ NoControllerReported
    /\ args.inv = "CLEAN"
    /\ pc = "done"
    /\ exitCode = -1

(***************************************************************************)
(* C13                                                                     *)
(***************************************************************************)
Messages == {out[k] : k \in DOMAIN out}
EndsWith(seq, tail) ==
    /\ Len(seq) >= Len(tail)
    /\ SubSeq(seq, Len(seq) - Len(tail) + 1, Len(seq)) = tail

\* C13: the exit status follows the failure class: RuntimeError/ValueError
\* end with the error logged, the traceback printed and status 1;
\* BTLEException and PluginInstallError end with the error logged and status
\* 0; a user interrupt ends with status 0.
C13_ExitStatusByFailureClass ==
    pc = "done"
       => /\ exc \in {"RuntimeError", "ValueError"}
                => (exitCode = 1 /\ EndsWith(out, <<"error", "traceback">>))
          /\ exc \in {"BTLEException", "PluginInstallError"}
                => (exitCode = 0 /\ EndsWith(out, <<"error">>)
                    /\ "traceback" \notin Messages)
          /\ Interrupted => exitCode = 0

(***************************************************************************)
(* C14                                                                     *)
(***************************************************************************)
\* C14: whenever Ctrl-C has been handled, at whatever point of main() it
\* arrived and whatever the reset command did, 'Canceled' was printed last,
\* no traceback was printed and the exit status is 0.
C14_CancellationIsGraceful ==
    (pc = "done" /\ Interrupted)
       => /\ EndsWith(out, <<"", "Canceled">>)
          /\ "traceback" \notin Messages
          /\ exitCode = 0

(***************************************************************************)
(* C15                                                                     *)
(***************************************************************************)
PrepareHostCommands == <<"rfkill unblock", "hciconfig up",
                         "systemctl restart bluetooth.service">>

\* the steps of a normalization, in the claimed order; the cache deletion is
\* the os.remove calls, between the address read and the close
NormalizationOrder ==
    PrepareHostCommands \o <<"open">> \o CommandOrder \o <<"close">>

IsPrepareHostCommand(c) ==
    \E k \in DOMAIN PrepareHostCommands : c.cmd = PrepareHostCommands[k]
IsRemoval(c) == c.cmd = "os.remove"
IsNoRemoval(name) == name # "os.remove"
Names(log) == [k \in DOMAIN log |-> log[k].cmd]
IsPrefixOf(p, q) == Len(p) <= Len(q) /\ SubSeq(q, 1, Len(p)) = p

\* what normalization has done so far: host commands, the handle, controller
\* commands, removals, closes
PrepTrace ==
    Names(SelectSeq(hostLog, IsPrepareHostCommand))
      \o (IF hci # "none" THEN <<"open">> ELSE <<>>)
      \o Names(hciLog)
      \o Names(SelectSeq(hostLog, IsRemoval))
      \o [k \in 1..closes |-> "close"]

Skeleton == SelectSeq(PrepTrace, IsNoRemoval)

\* every step but the one done last has succeeded
StepsCompleted ==
    /\ \A k \in DOMAIN hostLog :
          (IsPrepareHostCommand(hostLog[k]) \/ IsRemoval(hostLog[k]))
             => (hostLog[k].ok \/ k = Len(hostLog))
    /\ \A k \in DOMAIN hostLog :
          (IsPrepareHostCommand(hostLog[k]) /\ ~ hostLog[k].ok)
             => (hci = "none" /\ hciLog = <<>>)

\* no cache deletion before the address was read, none after the close, and
\* no file removed twice
RemovalsInPlace ==
    /\ CacheDeletions > 0 => (Len(hciLog) = AddrRead /\ local_bd_addr # NoAddr)
    /\ \A j, k \in DOMAIN hostLog :
          (IsRemoval(hostLog[j]) /\ IsRemoval(hostLog[k]) /\ j # k)
             => hostLog[j].path # hostLog[k].path

StepsInOrder ==
    LET done == Skeleton
    IN  /\ IsPrefixOf(done, NormalizationOrder)
        /\ StepsCompleted
        /\ RemovalsInPlace
        /\ PrepareReturned => done = NormalizationOrder

\* a step of the program adds at most one step, at the end of what was done
OneStepAtATime ==
    LET before == PrepTrace
        after  == PrepTrace'
    IN  \/ after = before
        \/ /\ Len(after) = Len(before) + 1
           /\ IsPrefixOf(before, after)

\* C15: normalization is one linear pass: at all times what it has done is a
\* prefix of rfkill unblock, interface up, service restart, open, the six
\* commands, the address read, the cache deletion, close, each step once,
\* each begun only after the one before has succeeded, each new step added
\* after all earlier ones; a normalization that returned has done all of them.
C15_StrictOrder == [] StepsInOrder /\ [][OneStepAtATime]_vars

\* reached: a normalization that returned after deleting a cache file, with a
\* warning on the way
C15_Witness ==
    /\ PrepareReturned
    /\ Skeleton = NormalizationOrder
    /\ CacheDeletions = 1
    /\ warned # <<>>
    /\ pc = "dispatch"

(***************************************************************************)
(* C16                                                                     *)
(***************************************************************************)
\* the warnings logged for the command at position j of hciLog
WarningsFor(j) == {k \in DOMAIN warned : warned[k].cmd = hciLog[j].cmd}

\* C16 (as claimed): for each of the six intermediate commands the warning
\* is decided by, and reports, the status that command itself returned: a
\* status outside {SUCCESS, COMMAND_DISALLOWED} is reported, a SUCCESS is
\* not, and a reported status is the command's own.
C16_OwnStatusClassified ==
    \A j \in DOMAIN hciLog \cap Intermediate :
       /\ hciLog[j].status \notin Tolerated => WarningsFor(j) # {}
       /\ hciLog[j].status = SUCCESS => WarningsFor(j) = {}
       /\ \A k \in WarningsFor(j) : warned[k].status = hciLog[j].status

(***************************************************************************)
(* C17                                                                     *)
(***************************************************************************)
NonSniffStarted == IsBound(args) /\ ~ args.adv /\ engineLog # <<>>

\* prepare_hci ran to its return: the three host commands succeeded, all
\* seven controller commands were issued, the address was read with SUCCESS
NormalizationCompleted ==
    /\ \A k \in DOMAIN PrepareHostCommands :
          \E j \in DOMAIN hostLog :
             hostLog[j].cmd = PrepareHostCommands[k] /\ hostLog[j].ok
    /\ \A j \in DOMAIN hostLog : IsPrepareHostCommand(hostLog[j]) => hostLog[j].ok
    /\ Names(hciLog) = CommandOrder
    /\ hciLog[AddrRead].status = SUCCESS
    /\ local_bd_addr # NoAddr

InClean == pc \in {"clean_stop", "clean_rm_dev", "clean_rm_cache", "clean_start"}
CleanLeft == PathCleanup /\ ~ InClean
CleanStoppedService ==
    \E k \in DOMAIN hostLog :
       hostLog[k].cmd = "systemctl stop bluetooth.service" /\ hostLog[k].ok

\* C18 (as claimed): when clean() is left, without an interrupt, after it
\* stopped the service, it has issued the start command.
C18_ServiceRestartedAfterClean ==
    (CleanLeft /\ CleanStoppedService /\ ~ Interrupted)
       => HostCount("systemctl start bluetooth.service") > 0

(***************************************************************************)
(* C19                                                                     *)
(***************************************************************************)
\* C19 (as claimed): a process ended by an exception other than the
\* interrupt has logged an error message.
C19_EveryFailureClassified ==
    (pc = "done" /\ exc # NoneVal /\ ~ Interrupted) => "error" \in Messages

(***************************************************************************)
(* C20                                                                     *)
(***************************************************************************)
\* C20: a failed rfkill unblock, hciconfig up or service restart is the last
\* host command of the run; no handle was opened, no controller command
\* issued, no cache file deleted, no engine started, and the run has ended
\* with the exception of the failed command.
C20_HostFailureAborts ==
    \A k \in DOMAIN hostLog :
       (IsPrepareHostCommand(hostLog[k]) /\ ~ hostLog[k].ok)
          => /\ k = Len(hostLog)
             /\ hci = "none"
             /\ closes = 0
             /\ hciLog = <<>>
             /\ CacheDeletions = 0
             /\ fs \in InitialFileSystems
             /\ engineLog = <<>>
             /\ pc = "done"
             /\ exc = "CalledProcessError"

\* reached: the service restart failed after the two commands before it
C20_Witness ==
    /\ Len(hostLog) = 3
    /\ hostLog[3].cmd = "systemctl restart bluetooth.service"
    /\ ~ hostLog[3].ok
    /\ hostLog[1].ok /\ hostLog[2].ok
    /\ pc = "done"

====
